---- MODULE Spec2Model ----
(***************************************************************************)
(* Model of peers_checker.py: the main script (fetch the reference height, *)
(* obtain the peer descriptors, probe every peer on a thread pool, rank    *)
(* the accepted peers, write the output files).                            *)
(*                                                                         *)
(* Python strings are sequences of one-character strings, so that split,   *)
(* strip, replace, join, int() and the f-strings are computed as Python    *)
(* computes them.  Python's None is the empty sequence <<>> and a value v  *)
(* that may be None is <<v>>.  A latency (a float, in milliseconds) is an  *)
(* integer number of half milliseconds.                                    *)
(*                                                                         *)
(* The command-line arguments are constants of one run; the model draws    *)
(* each where the script first uses it (sys.argv is read at lines 192-198).*)
(***************************************************************************)
EXTENDS Integers, Sequences, FiniteSets, TLC

VARIABLES
    pc,                 \* position of the main script
    exit_status,        \* <<>> while running, <<0>> or <<1>> once the process has ended
    expected_height,    \* line 200: <<>> (None / unassigned) or <<height>>
    lines,              \* lines 208/214: the peer descriptors
    max_latency,        \* argv[7]: <<>> (None) or <<ms>>
    accepted_height_difference,   \* argv[6]
    tasks,              \* one future per descriptor (check_nodes, line 107)
    successful_connections,       \* line 102; `connections` in the main script
    moniker_info,       \* line 103
    processed_count,    \* line 111
    top_n,              \* argv[3]: <<>> until save_top_connections is called
    top_connections,    \* line 154
    saved_nodes,        \* line 223: <<>> or <<n>>
    output_filename,    \* argv[4]: <<>> until save_top_connections is called
    json_format,        \* argv[5]: <<>> until the script tests it (line 225)
    files               \* the file system: a function from file name to content

vars == <<pc, exit_status, expected_height, lines, max_latency,
          accepted_height_difference, tasks, successful_connections, moniker_info,
          processed_count, top_n, top_connections, saved_nodes, output_filename,
          json_format, files>>

-----------------------------------------------------------------------------
(* Bounds and input domains *)

MaxPeers == 2

None == <<>>

Some(v) == <<v>>

Min(a, b) == IF a <= b THEN a ELSE b

\* Descriptors a peer file or a net_info answer can hold.
GoodLine == <<"a", "@", "h", ":", "1">>

NoAtLine == <<"a", "h", ":", "1">>

NoPortLine == <<"a", "@", "h">>

ExtraSepLine == <<"a", "@", "h", ":", "1", ":", "2">>

BadPortLine == <<"a", "@", "h", ":", "x">>

Descriptors == {GoodLine, NoAtLine, NoPortLine, ExtraSepLine, BadPortLine}

\* The peer entries a net_info answer can hold.
PeerEntries == {[id |-> <<"a">>, remote_ip |-> <<"h">>,
                 listen_addr |-> <<"t", ":", "1">>]}

RECURSIVE SeqsUpTo(_, _)
SeqsUpTo(S, n) ==
    IF n = 0 THEN {<<>>}
    ELSE LET shorter == SeqsUpTo(S, n - 1)
         IN  shorter \cup {Append(s, x) : s \in shorter, x \in S}

\* Heights the reference endpoint and the peers report.
ReferenceHeights == {10}

PeerHeights == {8, 9, 11}

AcceptedDifferences == {1}

\* argv[7]: absent, or 1 ms.
MaxLatencies == {None, Some(1)}

\* Measured latencies, in half milliseconds: 1.0 ms and 1.5 ms.
Latencies == {2, 3}

NodeIds == {<<"a">>, <<"b">>}

Monikers == {<<"m">>}

TopNs == 0 .. (MaxPeers + 1)

DotTxt == <<".", "t", "x", "t">>

OutputFilenames == {<<"o">> \o DotTxt, <<"o">>}

-----------------------------------------------------------------------------
(* Python string operations *)

Digits == <<"0", "1", "2", "3", "4", "5", "6", "7", "8", "9">>

IsDigit(c) == \E d \in 1 .. 10 : Digits[d] = c

DigitValue(c) == (CHOOSE d \in 1 .. 10 : Digits[d] = c) - 1

IsWhitespace(c) == c \in {" ", "\n"}

\* str.split(sep) for a one-character separator.
RECURSIVE Split(_, _)
Split(s, sep) ==
    IF \A k \in 1 .. Len(s) : s[k] # sep
    THEN <<s>>
    ELSE LET k == CHOOSE j \in 1 .. Len(s) :
                      s[j] = sep /\ \A m \in 1 .. (j - 1) : s[m] # sep
         IN  <<SubSeq(s, 1, k - 1)>> \o Split(SubSeq(s, k + 1, Len(s)), sep)

\* str.strip()
RECURSIVE Strip(_)
Strip(s) ==
    IF s = <<>> THEN s
    ELSE IF IsWhitespace(s[1]) THEN Strip(Tail(s))
    ELSE IF IsWhitespace(s[Len(s)]) THEN Strip(SubSeq(s, 1, Len(s) - 1))
    ELSE s

\* sep.join(parts)
RECURSIVE Join(_, _)
Join(parts, sep) ==
    IF parts = <<>> THEN <<>>
    ELSE IF Len(parts) = 1 THEN parts[1]
    ELSE parts[1] \o sep \o Join(Tail(parts), sep)

\* str.replace(old, new), old not empty
RECURSIVE Replace(_, _, _)
Replace(s, old, new) ==
    IF Len(s) < Len(old) THEN s
    ELSE IF SubSeq(s, 1, Len(old)) = old
         THEN new \o Replace(SubSeq(s, Len(old) + 1, Len(s)), old, new)
         ELSE <<s[1]>> \o Replace(Tail(s), old, new)

\* int(s) succeeds on a non-empty string of digits and raises ValueError on the
\* other strings of the model's alphabet.
IsIntLiteral(s) == s # <<>> /\ \A k \in 1 .. Len(s) : IsDigit(s[k])

RECURSIVE ParseInt(_)
ParseInt(s) ==
    IF s = <<>> THEN 0
    ELSE 10 * ParseInt(SubSeq(s, 1, Len(s) - 1)) + DigitValue(s[Len(s)])

\* str(n) for n >= 0, as the f-string of line 145 formats the port
RECURSIVE IntToStr(_)
IntToStr(n) ==
    IF n < 10 THEN <<Digits[n + 1]>>
    ELSE IntToStr(n \div 10) \o <<Digits[(n % 10) + 1]>>

-----------------------------------------------------------------------------
(* The helper functions of the script *)

max_workers == 10

Abs(x) == IF x < 0 THEN -x ELSE x

\* Answers of an HTTP status query (requests.get(.../status)): a transport
\* failure or timeout (RequestException), a status code other than 200, a 200
\* whose JSON lacks the fields read (KeyError), or a well-formed 200.  A body
\* that is no JSON at all ends as one of the first three, whichever exception
\* class response.json() raises.
StatusResponses(heights) ==
    {[kind |-> "request_exception"], [kind |-> "non200"], [kind |-> "missing_field"]}
        \cup {[kind |-> "ok", height |-> h, moniker |-> m, node_id |-> n] :
                 h \in heights, m \in Monikers, n \in NodeIds}

\* Outcomes of socket.create_connection: refused / timed out, or connected after
\* `elapsed` half milliseconds.
ConnectOutcomes ==
    {[connected |-> FALSE]} \cup {[connected |-> TRUE, elapsed |-> l] : l \in Latencies}

\* check_connection: (True, latency) or (False, None)
check_connection(outcome) ==
    IF outcome.connected
    THEN [success |-> TRUE, latency |-> Some(outcome.elapsed)]
    ELSE [success |-> FALSE, latency |-> None]

\* get_latest_block_height: (height, moniker, node_id), (None, "", ""), or an
\* exception that is not a RequestException and so leaves the function.
get_latest_block_height(response) ==
    IF response.kind = "ok"
    THEN [raised |-> FALSE, block_height |-> Some(response.height),
          moniker |-> response.moniker, node_id |-> response.node_id]
    ELSE IF response.kind = "missing_field"
    THEN [raised |-> TRUE]
    ELSE [raised |-> FALSE, block_height |-> None, moniker |-> <<>>, node_id |-> <<>>]

\* fetch_expected_height: the height, None, or an exception leaving the function.
fetch_expected_height(response) ==
    IF response.kind = "ok"
    THEN [raised |-> FALSE, value |-> Some(response.height)]
    ELSE IF response.kind = "missing_field"
    THEN [raised |-> TRUE]
    ELSE [raised |-> FALSE, value |-> None]

\* Answers of the net_info query.
NetInfoResponses ==
    {[kind |-> "request_exception"], [kind |-> "non200"], [kind |-> "missing_field"]}
        \cup {[kind |-> "ok", peers |-> ps] : ps \in SeqsUpTo(PeerEntries, MaxPeers)}

\* line 84: id@remote_ip:<text after the last colon of listen_addr>
PeerLine(peer) ==
    LET addr == Split(peer.listen_addr, ":")
    IN  peer.id \o <<"@">> \o peer.remote_ip \o <<":">> \o addr[Len(addr)]

fetch_peers(response) ==
    IF response.kind = "ok"
    THEN [raised |-> FALSE,
          value |-> [k \in 1 .. Len(response.peers) |-> PeerLine(response.peers[k])]]
    ELSE IF response.kind = "missing_field"
    THEN [raised |-> TRUE]
    ELSE [raised |-> FALSE, value |-> <<>>]

\* A peers file: unreadable (IOError), or readable with some content.
PeerFiles ==
    {[readable |-> FALSE]}
        \cup {[readable |-> TRUE, content |-> Join(ds, <<",">>) \o <<"\n">>] :
                 ds \in SeqsUpTo(Descriptors, MaxPeers)}

parse_file(file) ==
    IF file.readable THEN Split(Strip(file.content), ",") ELSE <<>>

-----------------------------------------------------------------------------
(* process_line, in the steps between which the thread waits for the network *)

\* lines 127-132: "none" when the function falls through to `return None`,
\* "raise" when int() raises ValueError, else the address to probe.
ParseDescriptor(line) ==
    LET parts == Split(line, "@")
    IN  IF Len(parts) # 2 THEN [kind |-> "none"]
        ELSE LET ip_port == Split(parts[2], ":")
             IN  IF Len(ip_port) # 2 THEN [kind |-> "none"]
                 ELSE IF ~IsIntLiteral(ip_port[2]) THEN [kind |-> "raise"]
                 ELSE [kind |-> "probe", ip |-> ip_port[1],
                       port |-> ParseInt(ip_port[2])]

\* Mutant: the bound is compared with the truncated latency, int(latency).
LatencyAccepted_Truncated(conn, maxlat) ==
    conn.success /\ (maxlat = None \/ conn.latency[1] \div 2 <= maxlat[1])

\* line 134: success and (max_latency is None or latency <= max_latency)
LatencyAccepted(conn, maxlat) ==
    conn.success /\ (maxlat = None \/ conn.latency[1] <= 2 * maxlat[1])

\* line 136: block_height is not None
HeightFound(block_height) == block_height # None

\* Mutant: the difference is compared without abs().
WithinTolerance_NoAbs(block_height, expected, accepted) ==
    block_height - expected <= accepted

\* line 137
WithinTolerance(block_height, expected, accepted) ==
    Abs(block_height - expected) <= accepted

\* int(latency), the latency in half milliseconds
IntLatency(latency) == latency \div 2

\* lines 140-148: the tuple (line, block_height, moniker_info)
MakeResult(line, addr, status, latency) ==
    [line |-> line,
     height |-> status.block_height[1],
     info |-> [moniker |-> status.moniker,
               node_id |-> status.node_id,
               ip |-> addr.ip,
               port |-> addr.port,
               full_peer |-> status.node_id \o <<"@">> \o addr.ip \o <<":">>
                                 \o IntToStr(addr.port),
               latency |-> IntLatency(latency)]]

\* lines 136-149, once get_latest_block_height has returned `status`
EvaluateStatus(line, addr, status, latency, expected, accepted) ==
    IF HeightFound(status.block_height)
           /\ WithinTolerance(status.block_height[1], expected, accepted)
    THEN Some(MakeResult(line, addr, status, latency))
    ELSE None

-----------------------------------------------------------------------------
(* save_top_connections and save_ids_only *)

\* Mutant: a record goes before the records of its own height, as when the list
\* is sorted ascending and then reversed.
RECURSIVE Insert_BeforeEqual(_, _)
Insert_BeforeEqual(sorted, r) ==
    IF sorted = <<>> THEN <<r>>
    ELSE IF sorted[1].height > r.height
         THEN <<sorted[1]>> \o Insert_BeforeEqual(Tail(sorted), r)
         ELSE <<r>> \o sorted

\* list.sort(key=height, reverse=True): a stable sort, records of equal height
\* keep their order.  Insert(sorted, r) puts r after every record that is at
\* least as high.
RECURSIVE Insert(_, _)
Insert(sorted, r) ==
    IF sorted = <<>> THEN <<r>>
    ELSE IF sorted[1].height >= r.height
         THEN <<sorted[1]>> \o Insert(Tail(sorted), r)
         ELSE <<r>> \o sorted

\* Mutant: reverse=True is missing, the list is sorted ascending.
RECURSIVE InsertAscending(_, _)
InsertAscending(sorted, r) ==
    IF sorted = <<>> THEN <<r>>
    ELSE IF sorted[1].height <= r.height
         THEN <<sorted[1]>> \o InsertAscending(Tail(sorted), r)
         ELSE <<r>> \o sorted

RECURSIVE SortByHeightAscending(_)
SortByHeightAscending(connections) ==
    IF connections = <<>> THEN <<>>
    ELSE InsertAscending(SortByHeightAscending(SubSeq(connections, 1,
                                                      Len(connections) - 1)),
                         connections[Len(connections)])

RECURSIVE SortByHeightDescending(_)
SortByHeightDescending(connections) ==
    IF connections = <<>> THEN <<>>
    ELSE Insert(SortByHeightDescending(SubSeq(connections, 1, Len(connections) - 1)),
                connections[Len(connections)])

\* Mutant: the slice is one too long.
Slice_OffByOne(connections, n) == SubSeq(connections, 1, Min(n + 1, Len(connections)))

\* connections[:top_n], top_n >= 0
Slice(connections, n) == SubSeq(connections, 1, Min(n, Len(connections)))

\* lines 156-163: conn[0] of each connection, comma-separated
PrimaryContent(top) == Join([k \in 1 .. Len(top) |-> top[k].line], <<",">>)

\* lines 172-178: conn[2]['node_id'] of each connection, comma-separated
IdsContent(top) == Join([k \in 1 .. Len(top) |-> top[k].info.node_id], <<",">>)

IdsOnlySuffix == <<"_", "i", "d", "s", "_", "o", "n", "l", "y">> \o DotTxt

MonikerSuffix == <<"_", "m", "o", "n", "i", "k", "e", "r", "_", "o", "b", "j", "s",
                   ".", "j", "s", "o", "n">>

\* line 170
IdsOnlyFilename(name) == Replace(name, DotTxt, IdsOnlySuffix)

\* line 226
MonikerFilename(name) == Replace(name, DotTxt, MonikerSuffix)

\* open(name, 'w') ... write: the file is created or replaced
WriteFile(fs, name, content) == (name :> content) @@ fs

TextFile(chars) == [kind |-> "text", data |-> chars]

\* json.dump(moniker_info): the list of objects, kept structured
JsonFile(objects) == [kind |-> "json", data |-> objects]

\* save_ids_only
save_ids_only(fs, connections, name) ==
    WriteFile(fs, IdsOnlyFilename(name), TextFile(IdsContent(connections)))

\* Mutant: the list is cut to top_n before it is sorted.
save_top_connections_SliceFirst(fs, connections, name, n) ==
    LET top == SortByHeightDescending(Slice(connections, n))
    IN  [connections |-> SortByHeightDescending(connections),
         top_connections |-> top,
         files |-> save_ids_only(WriteFile(fs, name, TextFile(PrimaryContent(top))),
                                 top, name),
         returned |-> Len(top)]

\* save_top_connections: the list after the in-place sort, the selection, the
\* files after the two writes, and the return value
save_top_connections(fs, connections, name, n) ==
    LET sorted == SortByHeightDescending(connections)
        top == Slice(sorted, n)
    IN  [connections |-> sorted,
         top_connections |-> top,
         files |-> save_ids_only(WriteFile(fs, name, TextFile(PrimaryContent(top))),
                                 top, name),
         returned |-> Len(top)]

-----------------------------------------------------------------------------
(* The state machine *)

NewTask ==
    [st |-> "pending",       \* pending, connecting, querying, returned, raised
     conn |-> None,          \* what check_connection returned (line 133)
     status |-> None,        \* what get_latest_block_height returned (line 135)
     result |-> None,        \* future.result() of a returned task
     yielded |-> FALSE,      \* as_completed has handed the future to the loop
     probes |-> <<>>]        \* the network requests the task has issued

Init ==
    /\ pc = "fetch_expected_height"
    /\ exit_status = None
    /\ expected_height = None
    /\ lines = <<>>
    /\ max_latency = None
    /\ accepted_height_difference = None
    /\ tasks = <<>>
    /\ successful_connections = <<>>
    /\ moniker_info = <<>>
    /\ processed_count = 0
    /\ top_n = None
    /\ top_connections = <<>>
    /\ saved_nodes = None
    /\ output_filename = None
    /\ json_format = None
    /\ files = <<>>

\* sys.exit(1) (lines 203, 211, 217): SystemExit is no Exception, the handler of
\* line 237 lets it through.
Exit1 == pc' = "exit" /\ exit_status' = Some(1)

\* An exception reaching line 237 is logged; the script then ends normally.
ExitAfterException == pc' = "exit" /\ exit_status' = Some(0)

\* lines 200-205
FetchExpectedHeight ==
    /\ pc = "fetch_expected_height"
    /\ \E response \in StatusResponses(ReferenceHeights) :
           LET r == fetch_expected_height(response)
           IN  IF r.raised
               THEN ExitAfterException /\ UNCHANGED expected_height
               ELSE IF r.value = None
               THEN Exit1 /\ expected_height' = None
               ELSE /\ expected_height' = r.value
                    /\ pc' = "get_peers"
                    /\ UNCHANGED exit_status
    /\ UNCHANGED <<lines, max_latency, accepted_height_difference, tasks,
                   successful_connections, moniker_info, processed_count,
                   top_n, top_connections, saved_nodes, output_filename, json_format,
                   files>>

\* lines 207-212: argv[2] names a file
GetPeersFromFile ==
    /\ pc = "get_peers"
    /\ \E file \in PeerFiles :
           /\ lines' = parse_file(file)
           /\ IF lines' = <<>>
              THEN Exit1
              ELSE pc' = "check_nodes" /\ UNCHANGED exit_status
    /\ UNCHANGED <<expected_height, max_latency, accepted_height_difference, tasks,
                   successful_connections, moniker_info, processed_count,
                   top_n, top_connections, saved_nodes, output_filename, json_format,
                   files>>

\* lines 213-218: argv[2] is empty
GetPeersFromRpc ==
    /\ pc = "get_peers"
    /\ \E response \in NetInfoResponses :
           LET r == fetch_peers(response)
           IN  IF r.raised
               THEN ExitAfterException /\ UNCHANGED lines
               ELSE /\ lines' = r.value
                    /\ IF lines' = <<>>
                       THEN Exit1
                       ELSE pc' = "check_nodes" /\ UNCHANGED exit_status
    /\ UNCHANGED <<expected_height, max_latency, accepted_height_difference, tasks,
                   successful_connections, moniker_info, processed_count,
                   top_n, top_connections, saved_nodes, output_filename, json_format,
                   files>>

\* Mutant: the output file is opened for writing before the peers are probed.
CheckNodesSubmit_OpensOutput ==
    /\ pc = "check_nodes"
    /\ \E ml \in MaxLatencies, ad \in AcceptedDifferences :
           /\ max_latency' = ml
           /\ accepted_height_difference' = Some(ad)
    /\ tasks' = [i \in 1 .. Len(lines) |-> NewTask]
    /\ successful_connections' = <<>>
    /\ moniker_info' = <<>>
    /\ processed_count' = 0
    /\ pc' = "as_completed"
    /\ \E name \in OutputFilenames : files' = (name :> [kind |-> "text", data |-> <<>>]) @@ files
    /\ UNCHANGED <<exit_status, expected_height, lines, top_n, top_connections,
                   saved_nodes, output_filename, json_format>>

\* lines 101-111: check_nodes submits one process_line per line
CheckNodesSubmit ==
    /\ pc = "check_nodes"
    /\ \E ml \in MaxLatencies, ad \in AcceptedDifferences :
           /\ max_latency' = ml
           /\ accepted_height_difference' = Some(ad)
    /\ tasks' = [i \in 1 .. Len(lines) |-> NewTask]
    /\ successful_connections' = <<>>
    /\ moniker_info' = <<>>
    /\ processed_count' = 0
    /\ pc' = "as_completed"
    /\ UNCHANGED <<exit_status, expected_height, lines, top_n, top_connections,
                   saved_nodes, output_filename, json_format, files>>

Running == {j \in DOMAIN tasks : tasks[j].st \in {"connecting", "querying"}}

\* Mutant: the pool starts a thread for every work item.
WorkerFree_Always(i) == TRUE

\* The pool has max_workers threads and hands out the work items in the order
\* of submission: task i starts when a thread is free for it.
WorkerFree(i) ==
    Cardinality(Running) + Cardinality({j \in 1 .. (i - 1) : tasks[j].st = "pending"})
        < max_workers

TaskUnchanged ==
    UNCHANGED <<pc, exit_status, expected_height, lines, max_latency,
                accepted_height_difference, successful_connections, moniker_info,
                processed_count, top_n, top_connections, saved_nodes, output_filename,
                json_format, files>>

\* process_line, lines 127-133: parse the line and open the connection
TaskStart(i) ==
    /\ pc = "as_completed"
    /\ tasks[i].st = "pending"
    /\ WorkerFree(i)
    /\ LET d == ParseDescriptor(lines[i])
       IN  tasks' = [tasks EXCEPT ![i] =
               IF d.kind = "none" THEN [@ EXCEPT !.st = "returned"]
               ELSE IF d.kind = "raise" THEN [@ EXCEPT !.st = "raised"]
               ELSE [@ EXCEPT !.st = "connecting",
                              !.probes = <<[kind |-> "connect", ip |-> d.ip,
                                            port |-> d.port]>>]]
    /\ TaskUnchanged

\* Mutant: the status query goes to the transport port itself.
StatusPort_Same(port) == port

\* line 135: the status port is the transport port plus one
StatusPort(port) == port + 1

\* process_line, lines 133-135: check_connection returns, with one of `outcomes`
ConnectReturnWith(i, outcomes) ==
    /\ pc = "as_completed"
    /\ tasks[i].st = "connecting"
    /\ \E outcome \in outcomes :
           LET conn == check_connection(outcome)
               d == ParseDescriptor(lines[i])
           IN  tasks' = [tasks EXCEPT ![i] =
                   IF LatencyAccepted(conn, max_latency)
                   THEN [@ EXCEPT !.conn = Some(conn), !.st = "querying",
                                  !.probes = Append(@, [kind |-> "status", ip |-> d.ip,
                                                        port |-> StatusPort(d.port)])]
                   ELSE [@ EXCEPT !.conn = Some(conn), !.st = "returned"]]
    /\ TaskUnchanged

ConnectReturn(i) == ConnectReturnWith(i, ConnectOutcomes)

\* process_line, lines 135-149: get_latest_block_height returns
StatusReturn(i) ==
    /\ pc = "as_completed"
    /\ tasks[i].st = "querying"
    /\ \E response \in StatusResponses(PeerHeights) :
           LET status == get_latest_block_height(response)
               d == ParseDescriptor(lines[i])
           IN  tasks' = [tasks EXCEPT ![i] =
                   IF status.raised
                   THEN [@ EXCEPT !.status = Some(status), !.st = "raised"]
                   ELSE [@ EXCEPT !.status = Some(status), !.st = "returned",
                                  !.result = EvaluateStatus(lines[i], d, status,
                                                 tasks[i].conn[1].latency[1],
                                                 expected_height[1],
                                                 accepted_height_difference[1])]]
    /\ TaskUnchanged

\* Mutant: a result equal to one already collected is dropped.
CollectConnections_SkipDuplicates(connections, result) ==
    IF result # None /\ \A k \in 1 .. Len(connections) : connections[k] # result[1]
    THEN Append(connections, result[1])
    ELSE connections

\* lines 116-118: `if result:` appends to both lists
CollectConnections(connections, result) ==
    IF result # None
    THEN Append(connections, [line |-> result[1].line, height |-> result[1].height,
                              info |-> result[1].info])
    ELSE connections

CollectMonikers(monikers, result) ==
    IF result # None THEN Append(monikers, result[1].info) ELSE monikers

\* Mutant: no try/except in the loop, the exception of a task leaves check_nodes
\* and reaches the handler of line 237.
Collect_NoCatch(i) ==
    /\ pc = "as_completed"
    /\ tasks[i].st \in {"returned", "raised"}
    /\ ~tasks[i].yielded
    /\ tasks' = [tasks EXCEPT ![i].yielded = TRUE]
    /\ IF tasks[i].st = "raised"
       THEN /\ ExitAfterException
            /\ UNCHANGED <<successful_connections, moniker_info, processed_count>>
       ELSE /\ successful_connections' =
                   (IF tasks[i].result # None
                    THEN Append(successful_connections, tasks[i].result[1])
                    ELSE successful_connections)
            /\ moniker_info' =
                   (IF tasks[i].result # None
                    THEN Append(moniker_info, tasks[i].result[1].info)
                    ELSE moniker_info)
            /\ processed_count' = processed_count + 1
            /\ UNCHANGED <<pc, exit_status>>
    /\ UNCHANGED <<expected_height, lines, max_latency,
                   accepted_height_difference, top_n, top_connections, saved_nodes,
                   output_filename, json_format, files>>

\* lines 112-122: one turn of the as_completed loop, for a finished future
Collect(i) ==
    /\ pc = "as_completed"
    /\ tasks[i].st \in {"returned", "raised"}
    /\ ~tasks[i].yielded
    /\ tasks' = [tasks EXCEPT ![i].yielded = TRUE]
    /\ IF tasks[i].st = "raised"
       THEN UNCHANGED <<successful_connections, moniker_info, processed_count>>
       ELSE /\ successful_connections' =
                   CollectConnections(successful_connections, tasks[i].result)
            /\ moniker_info' = CollectMonikers(moniker_info, tasks[i].result)
            /\ processed_count' = processed_count + 1
    /\ UNCHANGED <<pc, exit_status, expected_height, lines, max_latency,
                   accepted_height_difference, top_n, top_connections, saved_nodes,
                   output_filename, json_format, files>>

\* Mutant: check_nodes returns without waiting for the futures.
CheckNodesReturn_Early ==
    /\ pc = "as_completed"
    /\ pc' = "save_top_connections"
    /\ UNCHANGED <<exit_status, expected_height, lines, max_latency,
                   accepted_height_difference, tasks, successful_connections,
                   moniker_info, processed_count, top_n, top_connections, saved_nodes,
                   output_filename, json_format, files>>

\* line 123: the loop has seen every future
CheckNodesReturn ==
    /\ pc = "as_completed"
    /\ \A i \in DOMAIN tasks : tasks[i].yielded
    /\ pc' = "save_top_connections"
    /\ UNCHANGED <<exit_status, expected_height, lines, max_latency,
                   accepted_height_difference, tasks, successful_connections,
                   moniker_info, processed_count, top_n, top_connections, saved_nodes,
                   output_filename, json_format, files>>

\* line 223 and lines 152-166; the sort is in place, on the list check_nodes returned
SaveTopConnections ==
    /\ pc = "save_top_connections"
    /\ \E name \in OutputFilenames, n \in TopNs :
           LET saved == save_top_connections(files, successful_connections, name, n)
           IN  /\ successful_connections' = saved.connections
               /\ top_n' = Some(n)
               /\ top_connections' = saved.top_connections
               /\ files' = saved.files
               /\ saved_nodes' = Some(saved.returned)
               /\ output_filename' = Some(name)
    /\ pc' = "json_format"
    /\ UNCHANGED <<exit_status, expected_height, lines, max_latency,
                   accepted_height_difference, tasks, moniker_info, processed_count,
                   json_format>>

\* Mutant: the metadata of the selection is written, not that of every accepted
\* peer.
SaveMonikerInfo_TopOnly ==
    /\ pc = "json_format"
    /\ \E requested \in BOOLEAN :
           /\ json_format' = Some(requested)
           /\ files' = IF requested
                       THEN WriteFile(files, MonikerFilename(output_filename[1]),
                                      JsonFile([k \in 1 .. Len(top_connections) |->
                                                   top_connections[k].info]))
                       ELSE files
    /\ pc' = "exit"
    /\ exit_status' = Some(0)
    /\ UNCHANGED <<expected_height, lines, max_latency, accepted_height_difference,
                   tasks, successful_connections, moniker_info, processed_count,
                   top_n, top_connections, saved_nodes, output_filename>>

\* lines 225-236, and the normal end of the script
SaveMonikerInfo ==
    /\ pc = "json_format"
    /\ \E requested \in BOOLEAN :
           /\ json_format' = Some(requested)
           /\ files' = IF requested
                       THEN WriteFile(files, MonikerFilename(output_filename[1]),
                                      JsonFile(moniker_info))
                       ELSE files
    /\ pc' = "exit"
    /\ exit_status' = Some(0)
    /\ UNCHANGED <<expected_height, lines, max_latency, accepted_height_difference,
                   tasks, successful_connections, moniker_info, processed_count,
                   top_n, top_connections, saved_nodes, output_filename>>

Next ==
    \/ FetchExpectedHeight
    \/ GetPeersFromFile
    \/ GetPeersFromRpc
    \/ CheckNodesSubmit
    \/ \E i \in DOMAIN tasks : TaskStart(i)
    \/ \E i \in DOMAIN tasks : ConnectReturn(i)
    \/ \E i \in DOMAIN tasks : StatusReturn(i)
    \/ \E i \in DOMAIN tasks : Collect(i)
    \/ CheckNodesReturn
    \/ SaveTopConnections
    \/ SaveMonikerInfo

Spec == Init /\ [][Next]_vars

\* The threads of the pool and the main thread keep running: a step that can be
\* taken is taken.  Every probe returns (socket timeout 2 s, line 40; request
\* timeout 1 s, line 53), so a waiting task always has its next step.
FairSpec == Spec /\ WF_vars(Next)

-----------------------------------------------------------------------------
(* The pool under load: check_nodes over one more descriptor than the pool has *)
(* threads, every connection refused.  The as_completed loop reads the        *)
(* futures and acts on no thread of the pool; it is left out here.            *)

PoolPeers == max_workers + 1

InitPool ==
    /\ pc = "check_nodes"
    /\ exit_status = None
    /\ expected_height \in {Some(h) : h \in ReferenceHeights}
    /\ lines = [k \in 1 .. PoolPeers |-> GoodLine]
    /\ max_latency = None
    /\ accepted_height_difference = None
    /\ tasks = <<>>
    /\ successful_connections = <<>>
    /\ moniker_info = <<>>
    /\ processed_count = 0
    /\ top_n = None
    /\ top_connections = <<>>
    /\ saved_nodes = None
    /\ output_filename = None
    /\ json_format = None
    /\ files = <<>>

ConnectRefused(i) == ConnectReturnWith(i, {[connected |-> FALSE]})

NextPool ==
    \/ CheckNodesSubmit
    \/ \E i \in DOMAIN tasks : TaskStart(i)
    \/ \E i \in DOMAIN tasks : ConnectRefused(i)

SpecPool == InitPool /\ [][NextPool]_vars

-----------------------------------------------------------------------------
(* Vocabulary of the properties, stated on what the network answered rather  *)
(* than on what the script concluded                                         *)

Distance(a, b) == IF a >= b THEN a - b ELSE b - a

CheckNodesReturned ==
    pc \in {"save_top_connections", "json_format"} \/ (pc = "exit" /\ top_n # None)

Saved == pc = "json_format" \/ (pc = "exit" /\ top_n # None)

\* the connectivity probe of task i succeeded
Reachable(i) == tasks[i].conn # None /\ tasks[i].conn[1].success

\* its latency, in half milliseconds
MeasuredLatency(i) == tasks[i].conn[1].latency[1]

ExceedsBound(i) == max_latency # None /\ MeasuredLatency(i) > 2 * max_latency[1]

\* the status probe of task i yielded a status
Reported(i) ==
    /\ tasks[i].status # None
    /\ ~tasks[i].status[1].raised
    /\ tasks[i].status[1].block_height # None

ReportedHeight(i) == tasks[i].status[1].block_height[1]

HeightDistance(i) == Distance(ReportedHeight(i), expected_height[1])

Passed(i) ==
    /\ Reachable(i)
    /\ ~ExceedsBound(i)
    /\ Reported(i)
    /\ HeightDistance(i) <= accepted_height_difference[1]

PassedTasks == {i \in DOMAIN tasks : Passed(i)}

TaskKey(i) ==
    <<lines[i], ReportedHeight(i), tasks[i].status[1].node_id,
      tasks[i].status[1].moniker>>

RecordKey(r) == <<r.line, r.height, r.info.node_id, r.info.moniker>>

Accepted == successful_connections

-----------------------------------------------------------------------------
(* C1 *)

\* C1: every accepted record is within accepted_height_difference of the
\* reference height; once check_nodes has returned, a peer that reported a
\* height further away has no record, and a peer that reported a height exactly
\* accepted_height_difference away has one.
C1_AcceptedWithinTolerance ==
    /\ \A k \in 1 .. Len(Accepted) :
           Distance(Accepted[k].height, expected_height[1])
               <= accepted_height_difference[1]
    /\ CheckNodesReturned =>
           \A i \in DOMAIN tasks :
               Reported(i) =>
                   /\ HeightDistance(i) > accepted_height_difference[1]
                          => tasks[i].result = None
                   /\ HeightDistance(i) = accepted_height_difference[1]
                          => /\ tasks[i].result # None
                             /\ \E k \in 1 .. Len(Accepted) :
                                    RecordKey(Accepted[k]) = TaskKey(i)

C1_Witness ==
    /\ CheckNodesReturned
    /\ Len(Accepted) = 1
    /\ \E i, j \in DOMAIN tasks :
           /\ Reported(i)
           /\ HeightDistance(i) = accepted_height_difference[1]
           /\ Reported(j)
           /\ HeightDistance(j) > accepted_height_difference[1]

\* C2: with max_latency set, no accepted record stores a latency above it and a
\* reachable peer measured above it is dropped before any status query; every
\* other reachable peer goes on to the status query, so with max_latency unset
\* latency excludes nobody.
C2_LatencyBound ==
    /\ max_latency # None =>
           \A k \in 1 .. Len(Accepted) : Accepted[k].info.latency <= max_latency[1]
    /\ \A i \in DOMAIN tasks :
           Reachable(i) =>
               IF ExceedsBound(i)
               THEN /\ tasks[i].st = "returned"
                    /\ tasks[i].result = None
                    /\ tasks[i].status = None
               ELSE tasks[i].st = "querying" \/ tasks[i].status # None

C2_Witness ==
    /\ CheckNodesReturned
    /\ max_latency # None
    /\ Len(Accepted) = 1
    /\ \E i \in DOMAIN tasks : Reachable(i) /\ ExceedsBound(i)

\* C3: when check_nodes has returned, the accepted list holds one record for each
\* task whose descriptor passed connectivity, the latency bound, status retrieval
\* and the height tolerance, and nothing else.
C3_AcceptedExactlyPassed ==
    CheckNodesReturned =>
        /\ Len(Accepted) = Cardinality(PassedTasks)
        /\ \A i \in PassedTasks :
               Cardinality({k \in 1 .. Len(Accepted) : RecordKey(Accepted[k]) = TaskKey(i)})
                   = Cardinality({j \in PassedTasks : TaskKey(j) = TaskKey(i)})

C3_Witness ==
    /\ CheckNodesReturned
    /\ \E i, j \in DOMAIN tasks :
           /\ Passed(i)
           /\ tasks[j].st = "raised"
           /\ tasks[j].status # None
    /\ Len(Accepted) = 1

-----------------------------------------------------------------------------
(* C4 - C6: the ranked selection *)

\* C4: the selection has min(top_n, number of accepted records) entries,
\* save_top_connections returns that number, and a top_n that is not below the
\* number of accepted records selects them all.
C4_SelectionLength ==
    Saved =>
        LET n == Len(Accepted)
            expected == IF top_n[1] <= n THEN top_n[1] ELSE n
        IN  /\ Len(top_connections) = expected
            /\ saved_nodes = Some(expected)
            /\ top_n[1] >= n => top_connections = Accepted

C4_Witness ==
    /\ Saved
    /\ Len(Accepted) = 2
    /\ top_n[1] > Len(Accepted)
    /\ saved_nodes = Some(2)

\* C5: the selection is in descending order of height, and every accepted record
\* that is strictly higher than a selected record is selected too.
C5_SelectionRanked ==
    Saved =>
        /\ \A k \in 1 .. (Len(top_connections) - 1) :
               top_connections[k].height >= top_connections[k + 1].height
        /\ \A k \in 1 .. Len(top_connections) :
               Cardinality({j \in 1 .. Len(Accepted) :
                               Accepted[j].height > top_connections[k].height})
                   = Cardinality({j \in 1 .. Len(top_connections) :
                                     top_connections[j].height > top_connections[k].height})

\* the lower of two peers was accepted first (moniker_info keeps the order of
\* acceptance) and only the higher one is selected
C5_Witness ==
    /\ Saved
    /\ Len(Accepted) = 2
    /\ top_n = Some(1)
    /\ Accepted[1].height > Accepted[2].height
    /\ Accepted[1].info.node_id # Accepted[2].info.node_id
    /\ moniker_info[1].node_id = Accepted[2].info.node_id
    /\ top_connections = <<Accepted[1]>>

IsPrefix(s, t) == Len(s) <= Len(t) /\ s = SubSeq(t, 1, Len(s))

AtHeight(connections, h) == SelectSeq(connections, LAMBDA r : r.height = h)

\* C6: the step that ranks the accepted list keeps, for every height, the
\* records of that height in the order in which they were accepted, and the
\* selection holds a prefix of them (the records accepted first).
C6_StableRanking ==
    [][pc = "save_top_connections" =>
           \A h \in PeerHeights :
               /\ AtHeight(successful_connections', h) = AtHeight(successful_connections, h)
               /\ IsPrefix(AtHeight(top_connections', h),
                           AtHeight(successful_connections, h))]_vars

\* two peers of the same height: the one accepted first is first, and is the one
\* kept by top_n = 1
C6_Witness ==
    /\ Saved
    /\ Len(Accepted) = 2
    /\ top_n = Some(1)
    /\ Accepted[1].height = Accepted[2].height
    /\ Accepted[1].info.node_id # Accepted[2].info.node_id
    /\ moniker_info[1].node_id = Accepted[1].info.node_id
    /\ top_connections = <<Accepted[1]>>

-----------------------------------------------------------------------------
(* C7 - C10: the output files and the exit status *)

\* the ids-only file is a file of its own
SeparateIdsFile ==
    output_filename # None /\ IdsOnlyFilename(output_filename[1]) # output_filename[1]

\* C7: once save_top_connections has written it, the primary file holds the
\* comma-joined strings reported_identity@host:port of the selected records, in
\* ranked order.  Stated for the output names whose ids-only file is a file of
\* its own, so that the primary file is the one save_top_connections wrote.
C7_PrimaryHoldsFullPeers ==
    (pc = "json_format" /\ SeparateIdsFile) =>
        files[output_filename[1]] =
            TextFile(Join([k \in 1 .. Len(top_connections) |->
                              top_connections[k].info.full_peer], <<",">>))

\* C8: the ids-only file has as many entries as the primary file, and its i-th
\* entry is the identity part (the text before '@') of the i-th entry of the
\* primary file.  Stated, like C7, for the output names with a separate
\* ids-only file.
C8_IdsMatchPrimary ==
    (pc = "json_format" /\ SeparateIdsFile) =>
        LET primary == Split(files[output_filename[1]].data, ",")
            ids == Split(files[IdsOnlyFilename(output_filename[1])].data, ",")
        IN  /\ Len(ids) = Len(primary)
            /\ \A k \in 1 .. Len(ids) : ids[k] = Split(primary[k], "@")[1]

C10_FatalFailureExitsNonZero ==
    pc = "exit" =>
        ((expected_height = None \/ lines = <<>>) => exit_status = Some(1))

-----------------------------------------------------------------------------
(* C11 - C14: failures of the source, of a task, of a descriptor *)

\* the source held no descriptor: no line at all, or only empty ones
NoDescriptors == \A k \in 1 .. Len(lines) : lines[k] = <<>>

\* C11: with an empty or unreadable source of descriptors no evaluation task is
\* dispatched (and so no probe is issued).
C11_EmptySourceAborts == NoDescriptors => Len(tasks) = 0

Completed(i) == tasks[i].st \in {"returned", "raised"}

ReturnedRecord(i) == tasks[i].st = "returned" /\ tasks[i].result # None

\* C12: an exception of a task does not end the run early, and when check_nodes
\* has returned every future has been seen and the accepted list holds exactly
\* the records the other tasks returned.
C12_TaskExceptionContained ==
    /\ (pc = "exit" /\ Len(tasks) > 0) =>
           (exit_status = Some(0) /\ top_n # None /\ json_format # None)
    /\ CheckNodesReturned =>
           /\ \A i \in DOMAIN tasks : tasks[i].yielded
           /\ Len(Accepted) = Cardinality({i \in DOMAIN tasks : ReturnedRecord(i)})
           /\ \A i \in DOMAIN tasks :
                  ReturnedRecord(i) =>
                      Cardinality({k \in 1 .. Len(Accepted) :
                                      RecordKey(Accepted[k]) = RecordKey(tasks[i].result[1])})
                          = Cardinality({j \in DOMAIN tasks :
                                            /\ ReturnedRecord(j)
                                            /\ RecordKey(tasks[j].result[1])
                                                   = RecordKey(tasks[i].result[1])})

\* a task that raised before any probe, beside a task whose record was collected
C12_Witness ==
    /\ CheckNodesReturned
    /\ Len(Accepted) = 1
    /\ \E i, j \in DOMAIN tasks :
           /\ tasks[i].st = "raised"
           /\ tasks[i].probes = <<>>
           /\ ReturnedRecord(j)

\* id@host:port with an integer port
WellFormed(line) ==
    LET parts == Split(line, "@")
    IN  /\ Len(parts) = 2
        /\ LET ip_port == Split(parts[2], ":")
           IN  Len(ip_port) = 2 /\ IsIntLiteral(ip_port[2])

\* C13: process_line returns None, and does not raise, for a malformed
\* descriptor.
C13_MalformedReturnsNone ==
    \A i \in DOMAIN tasks :
        ~WellFormed(lines[i]) => (tasks[i].st # "raised" /\ tasks[i].result = None)

\* C14: the progress count is the number of futures the loop has handled, and
\* the number of lines once check_nodes has returned.  Stated for the runs over
\* well-formed descriptors, where no task raises on its descriptor (C13).
C14_ProgressCountsCompleted ==
    (\A k \in 1 .. Len(lines) : WellFormed(lines[k])) =>
        /\ pc = "as_completed" =>
               processed_count = Cardinality({i \in DOMAIN tasks : tasks[i].yielded})
        /\ CheckNodesReturned => processed_count = Len(lines)

-----------------------------------------------------------------------------
(* C15: the selection over the completion orders *)

PassedAt(h) == {i \in PassedTasks : ReportedHeight(i) = h}

PassedAbove(h) == {i \in PassedTasks : ReportedHeight(i) > h}

\* how many records of height h a selection of top_n records takes
SlotsAt(h) ==
    LET free == top_n[1] - Cardinality(PassedAbove(h))
    IN  IF free <= 0 THEN 0
        ELSE IF free >= Cardinality(PassedAt(h)) THEN Cardinality(PassedAt(h))
        ELSE free

\* the records the tasks returned, in the order of submission: the accepted list
\* of the run in which the futures complete in that order
RECURSIVE ResultsUpTo(_)
ResultsUpTo(n) ==
    IF n = 0 THEN <<>>
    ELSE IF tasks[n].result # None
         THEN Append(ResultsUpTo(n - 1), tasks[n].result[1])
         ELSE ResultsUpTo(n - 1)

InOrderSelection ==
    Slice(SortByHeightDescending(ResultsUpTo(Len(tasks))), top_n[1])

Occurrences(connections, r) ==
    Cardinality({k \in 1 .. Len(connections) : connections[k] = r})

\* C15 as claimed: the run selects the same records as the run with the same
\* probe responses whose futures complete in the order of submission.
C15_SameRecordsSelected ==
    Saved =>
        /\ Len(top_connections) = Len(InOrderSelection)
        /\ \A k \in 1 .. Len(top_connections) :
               Occurrences(top_connections, top_connections[k])
                   = Occurrences(InOrderSelection, top_connections[k])

\* C15 as amended: what the probe responses fix is, for every height, how many
\* records of that height are selected, and that they are records of peers that
\* passed at that height; so every height that fits wholly is selected wholly.
C15_SelectionFixedUpToTies ==
    Saved =>
        \A h \in PeerHeights :
            /\ Len(AtHeight(top_connections, h)) = SlotsAt(h)
            /\ \A k \in 1 .. Len(top_connections) :
                   top_connections[k].height = h =>
                       Cardinality({j \in 1 .. Len(top_connections) :
                                       RecordKey(top_connections[j])
                                           = RecordKey(top_connections[k])})
                           <= Cardinality({i \in PassedAt(h) :
                                              TaskKey(i) = RecordKey(top_connections[k])})

\* the second task completed first; both passed, at different heights, and one
\* is selected
C15_Witness ==
    /\ Saved
    /\ top_n = Some(1)
    /\ Cardinality(PassedTasks) = 2
    /\ ReportedHeight(1) > ReportedHeight(2)
    /\ moniker_info[1].node_id = tasks[2].status[1].node_id
    /\ tasks[1].status[1].node_id # tasks[2].status[1].node_id
    /\ top_connections = <<tasks[1].result[1]>>

-----------------------------------------------------------------------------
(* C16 - C17: the pool *)

\* C16: at most max_workers tasks are between their start and their return, and
\* there is one task per descriptor.
C16_PoolWidth ==
    /\ Cardinality(Running) <= max_workers
    /\ pc = "as_completed" => Len(tasks) = Len(lines)

\* every thread is busy and the last descriptor waits
C16_Witness ==
    /\ Len(tasks) = PoolPeers
    /\ Cardinality(Running) = max_workers
    /\ tasks[PoolPeers].st = "pending"

AllCompleted == \A i \in DOMAIN tasks : Completed(i)

\* C17: once the tasks are submitted, check_nodes eventually returns with every
\* task completed, and it never has returned while a task is pending or running.
C17_TasksRunToCompletion ==
    /\ (pc = "as_completed") ~> (CheckNodesReturned /\ AllCompleted)
    /\ [](CheckNodesReturned => AllCompleted)

\* check_nodes has returned from two tasks, one unreachable, one out of tolerance
C17_Witness ==
    /\ CheckNodesReturned
    /\ Len(tasks) = 2
    /\ AllCompleted
    /\ \E i, j \in DOMAIN tasks :
           /\ tasks[i].conn # None /\ ~tasks[i].conn[1].success
           /\ Reported(j) /\ tasks[j].result = None

-----------------------------------------------------------------------------
(* C18 - C20: order of the probes and of the writes *)

\* C18: a file exists only once every task has completed and been collected and
\* the accepted list is ranked; a run that ends before save_top_connections has
\* written nothing.
C18_FilesAfterRanking ==
    /\ DOMAIN files # {} =>
           /\ Saved
           /\ \A i \in DOMAIN tasks : Completed(i) /\ tasks[i].yielded
           /\ \A k \in 1 .. (Len(Accepted) - 1) : Accepted[k].height >= Accepted[k + 1].height
    /\ (pc = "exit" /\ top_n = None) => DOMAIN files = {}

C18_Witness ==
    /\ pc = "json_format"
    /\ DOMAIN files # {}
    /\ Len(tasks) = 2
    /\ Len(Accepted) = 2
    /\ Accepted[1].height > Accepted[2].height

DescriptorHost(line) == Split(Split(line, "@")[2], ":")[1]

DescriptorPort(line) == ParseInt(Split(Split(line, "@")[2], ":")[2])

\* C19: a task issues at most a connectivity probe to host:port followed by one
\* status probe to host:port+1; the status probe only after a successful
\* connection within the latency bound; a record only after a status.
C19_ProbeOrder ==
    \A i \in DOMAIN tasks :
        LET p == tasks[i].probes
        IN  /\ Len(p) <= 2
            /\ Len(p) >= 1 =>
                   p[1] = [kind |-> "connect", ip |-> DescriptorHost(lines[i]),
                           port |-> DescriptorPort(lines[i])]
            /\ Len(p) = 2 =>
                   /\ p[2] = [kind |-> "status", ip |-> DescriptorHost(lines[i]),
                              port |-> DescriptorPort(lines[i]) + 1]
                   /\ Reachable(i)
                   /\ ~ExceedsBound(i)
            /\ tasks[i].status # None => Len(p) = 2
            /\ (tasks[i].conn # None /\ (~Reachable(i) \/ ExceedsBound(i))) => Len(p) = 1
            /\ tasks[i].result # None => Reported(i)

\* one peer was queried for its status, one was unreachable, one too slow
C19_Witness ==
    /\ CheckNodesReturned
    /\ \E i, j \in DOMAIN tasks :
           /\ Len(tasks[i].probes) = 2
           /\ tasks[i].result # None
           /\ tasks[j].conn # None
           /\ Reachable(j)
           /\ ExceedsBound(j)
           /\ Len(tasks[j].probes) = 1

\* C20: once save_top_connections has returned (the ids-only file is written),
\* the primary file holds the selection that was written to it.
C20_PrimaryFileKept ==
    pc = "json_format" =>
        files[output_filename[1]] = TextFile(PrimaryContent(top_connections))

====
